---- MODULE Spec2Model ----
(***************************************************************************)
(* Model of src/main.py: the Amazon price checker.                         *)
(*                                                                         *)
(* One run of the script is one behaviour.  get_product_info is recursive: *)
(* the suspended callers are kept on `stack`, the innermost activation's   *)
(* locals are the variables contents, soup, price_tag and listed_price.    *)
(* Texts are sequences of one-character strings so that strip, split,      *)
(* join and float are computed character by character.                     *)
(***************************************************************************)
EXTENDS Integers, Sequences, FiniteSets, TLC

\* ------------------------------------------------------------------ bounds
\* Initial values of the retry counter range over -MaxNegBudget..MaxBudget.
MaxBudget == 5
MaxNegBudget == 1
\* Title texts of every length up to MaxTitleLen are normalized.
MaxTitleLen == 4
\* A counter that starts below 0 never reaches 0 again; such runs are
\* explored until the counter has fallen to LowestCounter.
LowestCounter == 0 - (MaxNegBudget + 2)

\* --------------------------------------------------------- program constants
TARGET_PRICE == 100

\* ------------------------------------------------------------------- values
\* Python None, an absent local, and the empty tuple ().
\* Every value is a record tagged with its kind.
None == [kind |-> "None"]
Unset == [kind |-> "unset"]
EmptyTuple == [kind |-> "tuple0"]
ValueError == [kind |-> "ValueError"]
Str(t) == [kind |-> "str", text |-> t]
Float(m, e) == [kind |-> "float", m |-> m, e |-> e]
Pair(name, price) == [kind |-> "tuple2", name |-> name, price |-> price]

Digits == {"0", "1", "2", "3", "4", "5", "6", "7", "8", "9"}

DigitVal(c) ==
    CASE c = "0" -> 0 [] c = "1" -> 1 [] c = "2" -> 2 [] c = "3" -> 3
      [] c = "4" -> 4 [] c = "5" -> 5 [] c = "6" -> 6 [] c = "7" -> 7
      [] c = "8" -> 8 [] c = "9" -> 9

\* Mutant of Whitespace: only the space character separates words.
WhitespaceSpaceOnly == {" "}

\* Characters str.split() and float() treat as white space.
Whitespace == {" ", "\t", "\n", "\r"}

\* The argument of price_tag.strip("\r\n $").
PriceStripChars == {"\r", "\n", " ", "$"}

\* str.strip(chars): remove leading and trailing characters that are in
\* chars, i.e. keep the text from the first to the last character that is
\* not in chars.
Strip(s, cs) ==
    LET keep == {i \in 1..Len(s) : s[i] \notin cs}
    IN  IF keep = {} THEN <<>>
        ELSE SubSeq(s, CHOOSE i \in keep : \A j \in keep : i <= j,
                       CHOOSE i \in keep : \A j \in keep : j <= i)

RECURSIVE Pow10(_)
Pow10(n) == IF n = 0 THEN 1 ELSE 10 * Pow10(n - 1)

\* The value of the first n characters of the digit string s.
RECURSIVE DigitsValue(_, _)
DigitsValue(s, n) ==
    IF n = 0 THEN 0 ELSE 10 * DigitsValue(s, n - 1) + DigitVal(s[n])

DigitsToInt(s) == DigitsValue(s, Len(s))

\* A decimal number m / 10^e, kept with no trailing zero in the fraction.
RECURSIVE Normalize(_, _)
Normalize(m, e) ==
    IF e > 0 /\ m % 10 = 0 THEN Normalize(m \div 10, e - 1)
    ELSE Float(m, e)

\* float(text) over the alphabet of the model: surrounding white space is
\* ignored, then an unsigned decimal numeral (digits with at most one point
\* and at least one digit) is required; anything else raises ValueError,
\* returned as the value ValueError.
ParseFloat(s) ==
    LET t == Strip(s, Whitespace)
        dots == {i \in 1..Len(t) : t[i] = "."}
        intPart == IF dots = {} THEN t
                   ELSE SubSeq(t, 1, (CHOOSE i \in dots : TRUE) - 1)
        fracPart == IF dots = {} THEN <<>>
                    ELSE SubSeq(t, (CHOOSE i \in dots : TRUE) + 1, Len(t))
    IN  IF /\ t # <<>>
           /\ \A i \in 1..Len(t) : t[i] \in Digits \cup {"."}
           /\ Cardinality(dots) <= 1
           /\ Len(intPart) + Len(fracPart) >= 1
        THEN Normalize(DigitsToInt(intPart \o fracPart), Len(fracPart))
        ELSE ValueError

\* Mutant of LeqTarget: the comparison is strict.
LeqTargetStrict(p) == p.m < TARGET_PRICE * Pow10(p.e)

\* price <= TARGET_PRICE for a parsed price.
LeqTarget(p) == p.m <= TARGET_PRICE * Pow10(p.e)

\* str.split(): the maximal runs of non-white-space characters, in order.
\* A word starts at a non-white-space character that is first or follows
\* white space, and runs to the last character before the next white space.
WordStarts(s) ==
    {i \in 1..Len(s) : s[i] \notin Whitespace
                       /\ (i = 1 \/ s[i - 1] \in Whitespace)}

WordEnd(s, i) ==
    CHOOSE j \in i..Len(s) :
        /\ \A k \in i..j : s[k] \notin Whitespace
        /\ (j = Len(s) \/ s[j + 1] \in Whitespace)

Split(s) ==
    LET starts == WordStarts(s)
        nth(k) == CHOOSE i \in starts :
                     Cardinality({j \in starts : j < i}) = k - 1
    IN  [k \in 1..Cardinality(starts) |-> SubSeq(s, nth(k), WordEnd(s, nth(k)))]

\* " ".join(ws): JoinUpTo joins the first n words.
RECURSIVE JoinUpTo(_, _)
JoinUpTo(ws, n) ==
    IF n = 0 THEN <<>>
    ELSE IF n = 1 THEN ws[1]
    ELSE JoinUpTo(ws, n - 1) \o <<" ">> \o ws[n]

Join(ws) == JoinUpTo(ws, Len(ws))

\* ------------------------------------------------------------------- inputs
\* Texts the price node of a fetched page may carry.
PriceTexts ==
    { <<"$", "9", "5">>,
      <<"$", "1", "0", "0", ".", "0", "0">>,
      <<"1", "5", "0">>,
      <<" ", " ", "$", "4", "2", ".", "5", "0", "\r", "\n">>,
      <<"\t", "$", "4", "2">>,
      <<"$", "N", "A">>,
      <<"$">> }

\* Texts the title node of a fetched page may carry.
TitleTexts ==
    { <<"W", "i", "d", "g", "e", "t", " ", " ", " ", "D", "e", "l", "u", "x",
        "e", "\n", " ", "P", "r", "o">>,
      <<" ", "A", "\t", "B", " ">> }

\* Every title text of at most MaxTitleLen characters over letters, space,
\* tab and newline.
TitleAlphabet == {"a", "b", " ", "\t", "\n"}
BoundedTitleTexts == UNION {[1..n -> TitleAlphabet] : n \in 0..MaxTitleLen}

\* The conversions of lines 116, 118, 122 and 134 applied to the texts above,
\* tabulated once: price_tag.strip("\r\n $"), float(price_tag) and
\* " ".join(text.split()).
StrippedPriceOf == [t \in PriceTexts |-> Strip(t, PriceStripChars)]
ListedPriceOf == [t \in PriceTexts |-> ParseFloat(StrippedPriceOf[t])]
JoinedTitleOf == [t \in TitleTexts \cup BoundedTitleTexts |-> Join(Split(t))]

\* A fetched page: whether the parser accepts it, and the text of the node
\* each selector finds (None when select_one finds no node).
Pages ==
    [parsable : {TRUE},
     price : {Str(t) : t \in PriceTexts} \cup {None},
     title : {Str(t) : t \in TitleTexts} \cup {None}]
    \cup {[parsable |-> FALSE, price |-> None, title |-> None]}

\* Outcomes of requests.get followed by raise_for_status.
FetchOutcomes == {"ok", "network_error", "bad_status"}

\* Outcomes of evaluating soup.select_one(...).text: the text, None.text
\* (AttributeError), or some other exception.
SelectOutcomes == {"node", "other_exception"}

VARIABLES
    MAX_RETRIES,    \* the global retry counter
    initialBudget,  \* its value when the run started (history)
    pc,             \* the statement about to run
    stack,          \* suspended activations of get_product_info, outermost first
    contents,       \* local contents of the innermost activation
    soup,           \* local soup
    price_tag,      \* local price_tag
    listed_price,   \* local listed_price
    ret,            \* value being returned by the activation that just ended
    product_info,   \* module-level product_info
    fetchCount,     \* number of requests.get calls issued (history)
    missCount,      \* attempts ended by a missing price or title node (history)
    extractCount,   \* attempts that reached the price selector (history)
    extracted,      \* the tuple built at line 136, and by which fetch (history)
    mailCalls,      \* number of send_mail invocations (history)
    sendmailCalls,  \* number of connection.sendmail calls (history)
    mailArgs,       \* product_name and new_price passed to send_mail (history)
    log,            \* the set of messages logged
    abortCause      \* the exception that ended the run, if any

vars == <<MAX_RETRIES, initialBudget, pc, stack, contents, soup, price_tag,
          listed_price, ret, product_info, fetchCount, missCount,
          extractCount, extracted, mailCalls, sendmailCalls, mailArgs, log,
          abortCause>>

locals == <<contents, soup, price_tag, listed_price>>
mailVars == <<mailCalls, sendmailCalls, mailArgs>>
history == <<fetchCount, missCount, extractCount, extracted>>

Init ==
    /\ MAX_RETRIES \in (0 - MaxNegBudget)..MaxBudget
    /\ initialBudget = MAX_RETRIES
    /\ pc = "gpi_check"
    /\ stack = <<>>
    /\ contents = Unset
    /\ soup = Unset
    /\ price_tag = Unset
    /\ listed_price = Unset
    /\ ret = Unset
    /\ product_info = Unset
    /\ fetchCount = 0
    /\ missCount = 0
    /\ extractCount = 0
    /\ extracted = None
    /\ mailCalls = 0
    /\ sendmailCalls = 0
    /\ mailArgs = None
    /\ log = {}
    /\ abortCause = "none"

\* An exception nobody catches: every activation is unwound and the
\* interpreter exits.
Abort(cause) ==
    /\ pc' = "aborted"
    /\ abortCause' = cause
    /\ stack' = <<>>

\* Mutant of Recurse: the counter is decremented in the handler and again on
\* entry, two units per failure.
RecurseDecrementsTwice(site) ==
    /\ MAX_RETRIES' = MAX_RETRIES - 2
    /\ stack' = Append(stack, [site |-> site, listed_price |-> listed_price])
    /\ pc' = "gpi_check"
    /\ contents' = Unset
    /\ soup' = Unset
    /\ price_tag' = Unset
    /\ listed_price' = Unset

\* Mutant of Recurse: the handler forgets MAX_RETRIES -= 1.
RecurseNoDecrement(site) ==
    /\ MAX_RETRIES' = MAX_RETRIES
    /\ stack' = Append(stack, [site |-> site, listed_price |-> listed_price])
    /\ pc' = "gpi_check"
    /\ contents' = Unset
    /\ soup' = Unset
    /\ price_tag' = Unset
    /\ listed_price' = Unset

\* get_product_info calls itself from an except handler: the caller is
\* suspended at `site` and a new activation starts with no locals.
Recurse(site) ==
    /\ MAX_RETRIES' = MAX_RETRIES - 1
    /\ stack' = Append(stack, [site |-> site, listed_price |-> listed_price])
    /\ pc' = "gpi_check"
    /\ contents' = Unset
    /\ soup' = Unset
    /\ price_tag' = Unset
    /\ listed_price' = Unset

\* Mutant of CallCheck: the test is MAX_RETRIES > 1 (one attempt too few).
CallCheckOffByOne ==
    /\ pc = "gpi_check"
    /\ IF MAX_RETRIES > 1 \/ MAX_RETRIES < 0
       THEN /\ MAX_RETRIES > LowestCounter
            /\ pc' = "fetch"
            /\ UNCHANGED <<ret, log>>
       ELSE /\ log' = log \cup {"critical: Max retries exceeded."}
            /\ ret' = EmptyTuple
            /\ pc' = "gpi_return"
    /\ UNCHANGED <<MAX_RETRIES, initialBudget, stack, locals, product_info,
                   history, mailVars, abortCause>>

\* Mutant of CallCheck: the else branch raises instead of returning ().
CallCheckRaises ==
    /\ pc = "gpi_check"
    /\ IF MAX_RETRIES # 0
       THEN /\ MAX_RETRIES > LowestCounter
            /\ pc' = "fetch"
            /\ UNCHANGED <<ret, log, stack, abortCause>>
       ELSE /\ log' = log \cup {"critical: Max retries exceeded."}
            /\ Abort("RuntimeError")
            /\ UNCHANGED ret
    /\ UNCHANGED <<MAX_RETRIES, initialBudget, locals, product_info,
                   history, mailVars>>

\* if MAX_RETRIES != 0: ... else: critical, return ()
CallCheck ==
    /\ pc = "gpi_check"
    /\ IF MAX_RETRIES # 0
       THEN /\ MAX_RETRIES > LowestCounter
            /\ pc' = "fetch"
            /\ UNCHANGED <<ret, log>>
       ELSE /\ log' = log \cup {"critical: Max retries exceeded."}
            /\ ret' = EmptyTuple
            /\ pc' = "gpi_return"
    /\ UNCHANGED <<MAX_RETRIES, initialBudget, stack, locals, product_info,
                   history, mailVars, abortCause>>

\* Mutant of Fetch: a transport failure is caught inside get_product_info,
\* which then returns None to its caller.
FetchCatchesTransportError ==
    /\ pc = "fetch"
    /\ fetchCount' = fetchCount + 1
    /\ \E outcome \in FetchOutcomes :
         IF outcome = "ok"
         THEN /\ \E page \in Pages : contents' = page
              /\ pc' = "parse"
              /\ UNCHANGED <<abortCause, ret>>
         ELSE /\ abortCause' = outcome
              /\ ret' = None
              /\ pc' = "gpi_return"
              /\ UNCHANGED contents
    /\ UNCHANGED <<MAX_RETRIES, initialBudget, stack, soup, price_tag,
                   listed_price, product_info, missCount, extractCount,
                   extracted, mailVars, log>>

\* response = requests.get(...); response.raise_for_status(); contents = ...
Fetch ==
    /\ pc = "fetch"
    /\ fetchCount' = fetchCount + 1
    /\ \E outcome \in FetchOutcomes :
         IF outcome = "ok"
         THEN /\ \E page \in Pages : contents' = page
              /\ pc' = "parse"
              /\ UNCHANGED <<stack, abortCause>>
         ELSE /\ Abort(outcome)
              /\ UNCHANGED contents
    /\ UNCHANGED <<MAX_RETRIES, initialBudget, soup, price_tag, listed_price,
                   ret, product_info, missCount, extractCount, extracted,
                   mailVars, log>>

\* Mutant of Parse: after logging the parse error the handler retries like
\* the field handlers instead of calling quit().
ParseRetriesOnError ==
    /\ pc = "parse"
    /\ IF contents.parsable
       THEN /\ soup' = contents
            /\ pc' = "price"
            /\ UNCHANGED <<MAX_RETRIES, stack, log, contents, price_tag,
                           listed_price>>
       ELSE /\ log' = log \cup {"critical: Error parsing html"}
            /\ Recurse("parse")
    /\ UNCHANGED <<initialBudget, ret, product_info, history, mailVars,
                   abortCause>>

\* soup = BeautifulSoup(markup=contents, ...); on any exception: critical, quit()
Parse ==
    /\ pc = "parse"
    /\ IF contents.parsable
       THEN /\ soup' = contents
            /\ pc' = "price"
            /\ UNCHANGED <<stack, abortCause, log>>
       ELSE /\ log' = log \cup {"critical: Error parsing html"}
            /\ Abort("SystemExit")
            /\ UNCHANGED soup
    /\ UNCHANGED <<MAX_RETRIES, initialBudget, contents, price_tag,
                   listed_price, ret, product_info, history, mailVars>>

\* try: price_tag = str(soup.select_one("span#size_name_0_price p").text)
PriceSelect ==
    /\ pc = "price"
    /\ extractCount' = extractCount + 1
    /\ \E outcome \in SelectOutcomes :
         IF outcome = "other_exception"
         THEN \* except Exception: warning; the function then ends
              /\ log' = log \cup {"warning: Error getting price text"}
              /\ ret' = None
              /\ pc' = "gpi_return"
              /\ UNCHANGED <<MAX_RETRIES, stack, locals, missCount>>
         ELSE IF soup.price = None
         THEN \* except AttributeError: warning, decrement, call again
              /\ log' = log \cup {"warning: Could not get price text. Retrying..."}
              /\ missCount' = missCount + 1
              /\ Recurse("price")
              /\ UNCHANGED ret
         ELSE /\ price_tag' = soup.price
              /\ pc' = "convert"
              /\ UNCHANGED <<MAX_RETRIES, stack, contents, soup, listed_price,
                             ret, missCount, log>>
    /\ UNCHANGED <<initialBudget, product_info, fetchCount, extracted,
                   mailVars, abortCause>>

\* else: price_tag = price_tag.strip("\r\n $"); listed_price = float(price_tag)
PriceConvert ==
    /\ pc = "convert"
    /\ price_tag' = Str(StrippedPriceOf[price_tag.text])
    /\ IF ListedPriceOf[price_tag.text] = ValueError
       THEN \* float raises ValueError outside any try block
            /\ Abort("ValueError")
            /\ UNCHANGED listed_price
       ELSE /\ listed_price' = ListedPriceOf[price_tag.text]
            /\ pc' = "title"
            /\ UNCHANGED <<stack, abortCause>>
    /\ UNCHANGED <<MAX_RETRIES, initialBudget, contents, soup, ret,
                   product_info, history, mailVars, log>>

\* Mutant of TitleSelect: a missing title node is not retried; the price
\* already found is returned with an empty name.
TitleSelectSalvagesPartial ==
    /\ pc = "title"
    /\ \E outcome \in SelectOutcomes :
         IF outcome = "other_exception"
         THEN /\ log' = log \cup {"warning: Error getting product name"}
              /\ ret' = None
              /\ pc' = "gpi_return"
              /\ UNCHANGED extracted
         ELSE /\ ret' = Pair(IF soup.title = None THEN <<>>
                             ELSE JoinedTitleOf[soup.title.text], listed_price)
              /\ extracted' = [kind |-> "extracted", snapshot |-> ret',
                              attempt |-> fetchCount]
              /\ pc' = "gpi_return"
              /\ UNCHANGED log
    /\ UNCHANGED <<MAX_RETRIES, stack, locals, missCount, initialBudget,
                   product_info, fetchCount, extractCount, mailVars,
                   abortCause>>

\* try: price_title_split = str(soup.select_one("span#productTitle").text).split()
\* ... else: return " ".join(price_title_split), listed_price
TitleSelect ==
    /\ pc = "title"
    /\ \E outcome \in SelectOutcomes :
         IF outcome = "other_exception"
         THEN /\ log' = log \cup {"warning: Error getting product name"}
              /\ ret' = None
              /\ pc' = "gpi_return"
              /\ UNCHANGED <<MAX_RETRIES, stack, locals, missCount, extracted>>
         ELSE IF soup.title = None
         THEN /\ log' = log \cup {"warning: Could not get product name. Retrying..."}
              /\ missCount' = missCount + 1
              /\ Recurse("title")
              /\ UNCHANGED <<ret, extracted>>
         ELSE /\ ret' = Pair(JoinedTitleOf[soup.title.text], listed_price)
              /\ extracted' = [kind |-> "extracted", snapshot |-> ret',
                              attempt |-> fetchCount]
              /\ pc' = "gpi_return"
              /\ UNCHANGED <<MAX_RETRIES, stack, locals, missCount, log>>
    /\ UNCHANGED <<initialBudget, product_info, fetchCount, extractCount,
                   mailVars, abortCause>>

\* Mutant of Return: a suspended caller that still has budget fetches again
\* after the call it made has returned.
ReturnThenRefetch ==
    /\ pc = "gpi_return"
    /\ IF stack = <<>>
       THEN /\ product_info' = ret
            /\ pc' = "main_check"
            /\ ret' = Unset
            /\ listed_price' = Unset
            /\ UNCHANGED stack
       ELSE /\ stack' = SubSeq(stack, 1, Len(stack) - 1)
            /\ listed_price' = Unset
            /\ ret' = None
            /\ pc' = IF MAX_RETRIES > 0 THEN "fetch" ELSE "gpi_return"
            /\ UNCHANGED product_info
    /\ contents' = Unset
    /\ soup' = Unset
    /\ price_tag' = Unset
    /\ UNCHANGED <<MAX_RETRIES, initialBudget, history, mailVars, log,
                   abortCause>>

\* An activation ends.  A suspended caller ignores the value of the call it
\* made, leaves its except handler and falls off the end of the function
\* (returns None); the outermost activation's value is bound to product_info.
Return ==
    /\ pc = "gpi_return"
    /\ IF stack = <<>>
       THEN /\ product_info' = ret
            /\ pc' = "main_check"
            /\ ret' = Unset
            /\ listed_price' = Unset
            /\ UNCHANGED stack
       ELSE /\ stack' = SubSeq(stack, 1, Len(stack) - 1)
            /\ listed_price' = stack[Len(stack)].listed_price
            /\ ret' = None
            /\ pc' = "gpi_return"
            /\ UNCHANGED product_info
    /\ contents' = Unset
    /\ soup' = Unset
    /\ price_tag' = Unset
    /\ UNCHANGED <<MAX_RETRIES, initialBudget, history, mailVars, log,
                   abortCause>>

\* Python truth value of product_info: None and () are false, a pair is true.
Truthy(v) == v \notin {None, EmptyTuple, Unset}

\* Mutant of MainCheck: the test `if not product_info` is missing, so
\* product_info[0] is read from None or () and raises.
MainCheckNoGuard ==
    /\ pc = "main_check"
    /\ IF ~Truthy(product_info)
       THEN /\ Abort(IF product_info = None THEN "TypeError" ELSE "IndexError")
            /\ UNCHANGED <<mailCalls, mailArgs, log>>
       ELSE IF LeqTarget(product_info.price)
       THEN /\ mailCalls' = mailCalls + 1
            /\ mailArgs' = Pair(product_info.name, product_info.price)
            /\ log' = log \cup {"info: Product name is", "info: Product price is"}
            /\ pc' = "smtp_connect"
            /\ UNCHANGED <<stack, abortCause>>
       ELSE /\ log' = log \cup {"info: Product name is", "info: Product price is",
                                 "info: No price drop. No email sent."}
            /\ pc' = "done"
            /\ UNCHANGED <<mailCalls, mailArgs, stack, abortCause>>
    /\ UNCHANGED <<MAX_RETRIES, initialBudget, locals, ret, product_info,
                   history, sendmailCalls>>

\* if not product_info: critical ... else: ... if price <= TARGET_PRICE: send_mail(...)
MainCheck ==
    /\ pc = "main_check"
    /\ IF ~Truthy(product_info)
       THEN /\ log' = log \cup {"critical: Could not get product info."}
            /\ pc' = "done"
            /\ UNCHANGED <<mailCalls, mailArgs, stack, abortCause>>
       ELSE IF LeqTarget(product_info.price)
       THEN /\ mailCalls' = mailCalls + 1
            /\ mailArgs' = Pair(product_info.name, product_info.price)
            /\ log' = log \cup {"info: Product name is", "info: Product price is"}
            /\ pc' = "smtp_connect"
            /\ UNCHANGED <<stack, abortCause>>
       ELSE /\ log' = log \cup {"info: Product name is", "info: Product price is",
                                 "info: No price drop. No email sent."}
            /\ pc' = "done"
            /\ UNCHANGED <<mailCalls, mailArgs, stack, abortCause>>
    /\ UNCHANGED <<MAX_RETRIES, initialBudget, locals, ret, product_info,
                   history, sendmailCalls>>

\* One step of send_mail before the try block: smtplib.SMTP(host, port),
\* connection.starttls(), connection.login(...).  A failure is not caught.
MailStep(here, next, error) ==
    /\ pc = here
    /\ \E ok \in BOOLEAN :
         IF ok THEN pc' = next /\ UNCHANGED <<stack, abortCause>>
         ELSE Abort(error)
    /\ UNCHANGED <<MAX_RETRIES, initialBudget, locals, ret, product_info,
                   history, mailVars, log>>

SmtpConnect == MailStep("smtp_connect", "starttls", "SMTPConnectError")
StartTls == MailStep("starttls", "login", "SMTPException")
Login == MailStep("login", "sendmail", "SMTPAuthenticationError")

\* try: connection.sendmail(...) except Exception: error else: info
SendMail ==
    /\ pc = "sendmail"
    /\ sendmailCalls' = sendmailCalls + 1
    /\ \E ok \in BOOLEAN :
         log' = log \cup {IF ok THEN "info: Email sent."
                          ELSE "error: Error sending email"}
    /\ pc' = "done"
    /\ UNCHANGED <<MAX_RETRIES, initialBudget, stack, locals, ret,
                   product_info, history, mailCalls, mailArgs, abortCause>>

Next ==
    \/ CallCheck
    \/ Fetch
    \/ Parse
    \/ PriceSelect
    \/ PriceConvert
    \/ TitleSelect
    \/ Return
    \/ MainCheck
    \/ SmtpConnect
    \/ StartTls
    \/ Login
    \/ SendMail

Spec == Init /\ [][Next]_vars

\* The run seen from the title extraction of its first attempt on: the page
\* has been fetched and parsed, its price found and converted, and its title
\* node carries any of the title texts.
TitleInit ==
    /\ MAX_RETRIES \in 1..MaxBudget
    /\ initialBudget = MAX_RETRIES
    /\ pc = "title"
    /\ stack = <<>>
    /\ \E t \in TitleTexts \cup BoundedTitleTexts :
         contents = [parsable |-> TRUE, price |-> Str(<<"$", "9", "5">>),
                     title |-> Str(t)]
    /\ soup = contents
    /\ price_tag = Str(StrippedPriceOf[soup.price.text])
    /\ listed_price = ListedPriceOf[soup.price.text]
    /\ ret = Unset
    /\ product_info = Unset
    /\ fetchCount = 1
    /\ missCount = 0
    /\ extractCount = 1
    /\ extracted = None
    /\ mailCalls = 0
    /\ sendmailCalls = 0
    /\ mailArgs = None
    /\ log = {}
    /\ abortCause = "none"

TitleNext == TitleSelect \/ Return

TitleSpec == TitleInit /\ [][TitleNext]_vars

FairSpec == Spec /\ WF_vars(Next)

\* ------------------------------------------------------------ vocabulary
TransportErrors == {"network_error", "bad_status"}
MailErrors == {"SMTPConnectError", "SMTPException", "SMTPAuthenticationError"}

\* The else branch of get_product_info (lines 138-140) has run.
Exhausted == "critical: Max retries exceeded." \in log

\* get_product_info has returned to the module level.
Returned == product_info # Unset

\* The run has passed the price comparison at line 187.
Decided == pc \in {"smtp_connect", "starttls", "login", "sendmail", "done"}
           \/ (pc = "aborted" /\ abortCause \in MailErrors)

\* C1: if extraction first succeeds on attempt k <= B after k-1 attempts that
\* failed with a missing node, exactly k fetches occur and the value
\* get_product_info returns to the module level is the k-th attempt's
\* (name, price).
C1_SnapshotReturned ==
    ( /\ Returned
      /\ extracted # None
      /\ initialBudget >= 1
      /\ extracted.attempt <= initialBudget
      /\ missCount = extracted.attempt - 1 )
    => /\ fetchCount = extracted.attempt
       /\ product_info = extracted.snapshot

\* C2 (state part): with B >= 1 and every attempt ended by a missing field,
\* the run has made exactly B fetches, logged the critical message of the
\* exhausted branch and handed no snapshot to the module level.
C2_ExhaustedAfterB ==
    (Returned /\ initialBudget >= 1 /\ missCount = fetchCount)
    => /\ fetchCount = initialBudget
       /\ MAX_RETRIES = 0
       /\ Exhausted
       /\ ~Truthy(product_info)

\* C2: for every budget B >= 1, if every extraction attempt fails with a
\* missing field, exactly B fetch-parse attempts are made, then the exhausted
\* branch is reached (critical log, no snapshot for the caller), and no fetch
\* is made after it.
C2_AllFailExhausted ==
    /\ []C2_ExhaustedAfterB
    /\ [][Exhausted => fetchCount' = fetchCount]_vars

C2_Witness ==
    /\ pc = "done"
    /\ initialBudget >= 2
    /\ missCount = fetchCount
    /\ fetchCount = initialBudget

\* C3: for every budget B <= 0 no fetch is made and the run is exhausted at
\* once; no fetch is ever issued while the counter is <= 0.
C3_NoFetchWithoutBudget ==
    /\ initialBudget <= 0 => fetchCount = 0
    /\ pc = "fetch" => MAX_RETRIES > 0

\* C4: a price node whose stripped text is not a number is handled like a
\* missing price node: the counter drops by 1 and get_product_info is entered
\* again; the run is not aborted.
C4_MalformedPriceRetried ==
    [][ ( /\ pc = "convert"
          /\ ListedPriceOf[price_tag.text] = ValueError )
        => /\ MAX_RETRIES' = MAX_RETRIES - 1
           /\ pc' = "gpi_check" ]_vars

\* C5: a transport failure on any attempt ends the run at once: nothing more
\* runs, that attempt reaches no extraction, the counter is not charged for
\* it, and send_mail is not called.
C5_TransportFailureAborts ==
    abortCause \in TransportErrors
    => /\ pc = "aborted"
       /\ ~ENABLED Next
       /\ extractCount = fetchCount - 1
       /\ MAX_RETRIES = initialBudget - (fetchCount - 1)
       /\ mailCalls = 0
       /\ sendmailCalls = 0

C5_Witness ==
    /\ abortCause = "bad_status"
    /\ fetchCount >= 2
    /\ MAX_RETRIES >= 1

\* C6: once the module level holds a snapshot, send_mail is called exactly
\* once if its price <= TARGET_PRICE (equality included) and never if its
\* price > TARGET_PRICE.
C6_MailIffPriceAtOrBelowTarget ==
    Truthy(product_info)
    => /\ pc = "main_check" => mailCalls = 0
       /\ Decided =>
            mailCalls = IF product_info.price.m
                             <= TARGET_PRICE * Pow10(product_info.price.e)
                        THEN 1 ELSE 0

C6_Witness ==
    /\ pc = "done"
    /\ Truthy(product_info)
    /\ product_info.price = Float(TARGET_PRICE, 0)
    /\ mailCalls = 1

\* C7: a failure of the mail transport at any step of the send (connect,
\* starttls, login, sendmail) is logged as an error and does not abort the
\* run; the send is not retried.
C7_MailFailureNotFatal ==
    /\ mailCalls > 0 => pc # "aborted"
    /\ sendmailCalls <= 1

\* C8: when the price was found and parsed but the title node is missing,
\* the attempt yields no snapshot, the counter drops by exactly 1, the found
\* price is not carried into the next activation, which starts from scratch;
\* the suspended attempt later returns None.
C8_PartialSuccessDiscarded ==
    /\ [][ (pc = "title" /\ missCount' = missCount + 1)
           => /\ listed_price.kind = "float"
              /\ MAX_RETRIES' = MAX_RETRIES - 1
              /\ extracted' = extracted
              /\ ret' = ret
              /\ pc' = "gpi_check"
              /\ contents' = Unset
              /\ soup' = Unset
              /\ price_tag' = Unset
              /\ listed_price' = Unset
              /\ fetchCount' = fetchCount ]_vars
    /\ [][ (pc = "gpi_return" /\ stack # <<>>) => ret' = None ]_vars
    /\ [](pc = "fetch" => listed_price = Unset)

C8_Witness ==
    /\ stack # <<>>
    /\ stack[Len(stack)].site = "title"
    /\ pc = "title"
    /\ listed_price # stack[Len(stack)].listed_price

\* C9 (state part): once the counter is depleted the run is never aborted
\* and send_mail is never called; at the end the module level has logged its
\* critical message.
C9_ExhaustedState ==
    Exhausted
    => /\ pc # "aborted"
       /\ mailCalls = 0
       /\ extracted = None
       /\ pc = "done" => "critical: Could not get product info." \in log

\* C9: when the retry budget is depleted without a successful extraction the
\* run completes normally, a critical message is logged and send_mail is
\* never called.
C9_ExhaustedCompletes ==
    /\ []C9_ExhaustedState
    /\ (Exhausted ~> pc = "done")

C9_Witness ==
    /\ Exhausted
    /\ pc = "done"
    /\ fetchCount >= 2

\* C10: a markup parse failure on any attempt ends the whole run at once:
\* the counter is not charged for it, no further step (no fetch) runs and
\* send_mail is not called.
C10_ParseFailureAborts ==
    "critical: Error parsing html" \in log
    => /\ pc = "aborted"
       /\ abortCause = "SystemExit"
       /\ ~ENABLED Next
       /\ MAX_RETRIES = initialBudget - (fetchCount - 1)
       /\ mailCalls = 0
       /\ sendmailCalls = 0

C10_Witness ==
    /\ abortCause = "SystemExit"
    /\ fetchCount >= 2
    /\ MAX_RETRIES >= 1

\* A step in which locating or converting a field raised an exception: the
\* price selector did not yield a text, float() did not yield a number, or
\* the title selector did not yield a snapshot.
ExtractionFailureStep ==
    \/ pc = "price" /\ pc' # "convert"
    \/ pc = "convert" /\ pc' # "title"
    \/ pc = "title" /\ extracted' = extracted

\* C11: every extraction failure (any exception raised while locating or
\* converting the price or the title) decrements MAX_RETRIES by exactly 1 and
\* enters get_product_info again; the counter is never increased, so it always
\* equals the initial budget minus the failed extraction attempts so far.
C11_EveryFailureChargedAndRetried ==
    /\ [][ ExtractionFailureStep
           => MAX_RETRIES' = MAX_RETRIES - 1 /\ pc' = "gpi_check" ]_vars
    /\ [][ MAX_RETRIES' <= MAX_RETRIES ]_vars

\* The page held by the innermost activation carries both nodes, and snap
\* is the pair of its converted title and price.
SnapshotOfCurrentPage(snap) ==
    /\ soup # Unset
    /\ contents = soup
    /\ soup.price # None
    /\ soup.title # None
    /\ snap.kind = "tuple2"
    /\ snap.name = Join(Split(soup.title.text))
    /\ snap.price = ParseFloat(Strip(soup.price.text, PriceStripChars))

\* C12: a snapshot is returned only if the price and the title were both
\* extracted in the same attempt: the name and price of any snapshot come
\* from one and the same fetched page, never from two attempts.
C12_SnapshotFromOnePage ==
    /\ [][ extracted' # extracted
           => /\ pc = "title"
              /\ extracted'.attempt = fetchCount
              /\ ret' = extracted'.snapshot
              /\ UNCHANGED <<soup, contents>>
              /\ SnapshotOfCurrentPage(extracted'.snapshot) ]_vars
    /\ [](ret.kind = "tuple2" => ret = extracted.snapshot)
    /\ [](Truthy(product_info) => product_info = extracted.snapshot)

C12_Witness ==
    /\ pc = "gpi_return"
    /\ ret.kind = "tuple2"
    /\ stack # <<>>
    /\ stack[Len(stack)].site = "title"
    /\ stack[Len(stack)].listed_price # ret.price

\* C13: attempts are strictly sequential: a fetch is issued only when every
\* earlier attempt has ended in a field-missing failure, at most one attempt
\* is unfinished at any time, fetches are issued one at a time, and after a
\* successful extraction no further fetch is issued.
C13_AttemptsSequential ==
    /\ [](pc = "fetch" => missCount = fetchCount /\ extracted = None)
    /\ [](fetchCount - missCount \in {0, 1})
    /\ [][ fetchCount' # fetchCount
           => pc = "fetch" /\ fetchCount' = fetchCount + 1 ]_vars
    /\ [][ extracted # None => fetchCount' = fetchCount ]_vars

C13_Witness ==
    /\ pc = "fetch"
    /\ fetchCount = 2
    /\ Len(stack) = 2

\* White-space characters, and the positions of the other characters of s.
BlankChars == {" ", "\t", "\n", "\r"}
NonBlankAt(s) == {i \in 1..Len(s) : s[i] \notin BlankChars}
NthNonBlank(s, k) ==
    CHOOSE i \in NonBlankAt(s) :
        Cardinality({j \in NonBlankAt(s) : j < i}) = k - 1

\* r is t with every white-space run between two words replaced by one
\* space and the white space at both ends removed: r holds the non-blank
\* characters of t in order, a single space exactly where t has white space
\* between two of them, and nothing else.
CollapsedFrom(t, r) ==
    /\ \A i \in 1..Len(r) : r[i] \in BlankChars => r[i] = " "
    /\ r # <<>> => r[1] # " " /\ r[Len(r)] # " "
    /\ \A i \in 1..(Len(r) - 1) : ~(r[i] = " " /\ r[i + 1] = " ")
    /\ Cardinality(NonBlankAt(r)) = Cardinality(NonBlankAt(t))
    /\ \A k \in 1..Cardinality(NonBlankAt(t)) :
         /\ r[NthNonBlank(r, k)] = t[NthNonBlank(t, k)]
         /\ k > 1 => ( (r[NthNonBlank(r, k) - 1] = " ")
                       <=> (t[NthNonBlank(t, k) - 1] \in BlankChars) )

\* C14: for every title text over an alphabet with spaces, tabs and
\* newlines, the extracted name is the text with every internal white-space
\* run collapsed to one space and no white space at the ends; normalizing the
\* name again leaves it unchanged; "Widget   Deluxe\n Pro" becomes
\* "Widget Deluxe Pro".
C14_TitleNormalized ==
    ret.kind = "tuple2"
    => /\ CollapsedFrom(soup.title.text, ret.name)
       /\ Join(Split(ret.name)) = ret.name
       /\ soup.title.text = <<"W", "i", "d", "g", "e", "t", " ", " ", " ", "D",
                              "e", "l", "u", "x", "e", "\n", " ", "P", "r", "o">>
          => ret.name = <<"W", "i", "d", "g", "e", "t", " ", "D", "e", "l", "u",
                          "x", "e", " ", "P", "r", "o">>

C14_Witness ==
    /\ ret.kind = "tuple2"
    /\ soup.title.text = <<"a", "\t", "\n", "b">>
    /\ ret.name = <<"a", " ", "b">>

\* The characters the claim allows around the numeral, and the texts that
\* are unsigned decimal numerals.
PadChars == {" ", "\t", "\r", "\n", "$"}
IsNumeral(s) ==
    /\ \A i \in 1..Len(s) : s[i] \in Digits \cup {"."}
    /\ Cardinality({i \in 1..Len(s) : s[i] = "."}) <= 1
    /\ \E i \in 1..Len(s) : s[i] \in Digits

\* C15: for every price text made of a decimal numeral surrounded by any mix
\* of space, tab, carriage return, newline and '$', the conversion strips all
\* surrounding characters, leaves exactly the numeral in price_tag, and the
\* numeral's value becomes the price; "  $42.50\r\n" yields 42.5.
C15_PriceNormalized ==
    ( /\ price_tag # Unset
      /\ pc # "convert"
      /\ IsNumeral(Strip(soup.price.text, PadChars)) )
    => /\ abortCause # "ValueError"
       /\ price_tag.text = Strip(soup.price.text, PadChars)
       /\ listed_price = ParseFloat(Strip(soup.price.text, PadChars))
       /\ soup.price.text = <<" ", " ", "$", "4", "2", ".", "5", "0", "\r", "\n">>
          => listed_price = Float(425, 1)

\* C16: for every initial budget B >= 0 and every sequence of outcomes,
\* MAX_RETRIES stays within 0..B and the number of fetches never exceeds B.
C16_CounterAndFetchesBounded ==
    initialBudget >= 0
    => /\ MAX_RETRIES \in 0..initialBudget
       /\ fetchCount <= initialBudget

C16_Witness ==
    /\ initialBudget >= 2
    /\ pc = "gpi_check"
    /\ MAX_RETRIES = 0
    /\ fetchCount = initialBudget

\* The run has ended.
Terminated == pc \in {"done", "aborted"}

\* C17 (state part): with B >= 0 a run that has ended has a snapshot at the
\* module level, or is exhausted, or was aborted; and get_product_info is
\* never nested deeper than B + 1 activations.
C17_OutcomeAndDepth ==
    initialBudget >= 0
    => /\ Terminated => (Truthy(product_info) \/ Exhausted \/ pc = "aborted")
       /\ Len(stack) + 1 <= initialBudget + 1

\* C17: for every initial budget B >= 0 and every sequence of fetch,
\* extraction and mail outcomes, the run eventually terminates with a
\* snapshot obtained (notified or not), exhausted, or aborted on a fatal
\* condition; the recursion depth of get_product_info never exceeds B + 1.
C17_TerminatesInKnownOutcome ==
    /\ []C17_OutcomeAndDepth
    /\ (initialBudget >= 0 ~> Terminated)

\* C18 (state part): at most one call of send_mail, made with the name and
\* price of the snapshot get_product_info returned; no read of a name or a
\* price from None or ().
C18_MailState ==
    /\ mailCalls <= 1
    /\ mailCalls = 0 => mailArgs = None
    /\ mailCalls = 1
       => /\ Returned
          /\ product_info.kind = "tuple2"
          /\ mailArgs = product_info
          /\ product_info = extracted.snapshot
    /\ "info: Product name is" \in log => product_info.kind = "tuple2"
    /\ abortCause \notin {"TypeError", "IndexError"}

\* C18: in every run send_mail is called at most once, only after
\* get_product_info has returned a snapshot, and with exactly that snapshot's
\* name and price; the module level never reads a name or price from an empty
\* or absent result.
C18_MailOnlyWithReturnedSnapshot ==
    /\ []C18_MailState
    /\ [][ mailCalls' # mailCalls => pc = "main_check" ]_vars

C18_Witness ==
    /\ pc = "done"
    /\ mailCalls = 1
    /\ sendmailCalls = 1
    /\ mailArgs = Pair(<<"A", " ", "B">>, Float(425, 1))
====
